---- MODULE Spec2Model ----
(***************************************************************************)
(* Employee management server (ermadhav/ems): the Express routes, the auth *)
(* middleware and the DatabaseStorage layer, as a state machine.           *)
(*                                                                         *)
(* Every HTTP request is served by a process p.  Begin(p, r) runs the      *)
(* middleware chain and the synchronous prefix of the handler, up to the   *)
(* first awaited storage call.  Every later action of p is one storage     *)
(* call (one SQL statement, atomic in the database) together with the      *)
(* continuation that follows it, up to the next awaited storage call or    *)
(* the response.  Time is in milliseconds since the model's epoch, which   *)
(* is a local midnight of the server.                                      *)
(***************************************************************************)
EXTENDS Integers, Sequences, FiniteSets, TLC

VARIABLES
  now,            \* the server clock (ms)
  employees,      \* table employees:      id -> row | NoRow
  attendance,     \* table attendance:     id -> row | NoRow
  leaveRequests,  \* table leave_requests: id -> row | NoRow
  seq,            \* rows ever inserted per table (gen_random_uuid never repeats)
  tokens,         \* the bearer tokens issued so far, held by the clients
  pc,             \* where each request is
  req,            \* the request each process serves
  loc,            \* the handler's local variables across awaits
  out,            \* the response the latest step sent, NoOut if it sent none
  hist            \* history: the status the request to decide had on arrival

vars == <<now, employees, attendance, leaveRequests, seq, tokens, pc, req, loc, out, hist>>
tables == <<employees, attendance, leaveRequests, seq>>

(***************************************************************************)
(* Bounds of the model.                                                    *)
(***************************************************************************)
MaxEmp == 3
MaxAtt == 3
MaxLeave == 2
Procs == {"p1", "p2"}

(***************************************************************************)
(* Program constants.                                                      *)
(***************************************************************************)
MsPerHour == 3600000
MsPerDay == 86400000
TokenLifeSec == 86400
MinPasswordLen == 6

\* A nullable or optional value is <<>> (null, undefined) or <<v>>.
Null == <<>>
Some(v) == <<v>>
Absent == "absent"
NoRow == [id |-> 0]
NoToken == [kind |-> "none"]
BadToken == [kind |-> "bad"]
NoUser == [id |-> 0, role |-> "none"]
NoBody == [none |-> TRUE]
NoLoc == [user |-> NoUser]
NoRes == [code |-> 0, message |-> "", body |-> Null]
NoOut == [proc |-> "", op |-> "none", code |-> 0, message |-> "", body |-> Null]
NoReq == [op |-> "none", token |-> NoToken, id |-> 0, body |-> NoBody]

Roles == {"employee", "admin"}
LeaveStatuses == {"pending", "approved", "rejected"}
LeaveTypes == {"sick", "vacation", "personal", "emergency"}

EmpIds == 1..MaxEmp
AttIds == 1..MaxAtt
LeaveIds == 1..MaxLeave

Rows(table) == {i \in DOMAIN table : table[i] # NoRow}

(***************************************************************************)
(* Arithmetic of the handlers.                                             *)
(***************************************************************************)
\* Math.ceil(a / b) for b > 0 and any integer a (\div rounds down)
Ceil(a, b) == -((-a) \div b)

\* Math.round(a / b) for an even b > 0: the integer nearest to a / b, a tie going
\* up (towards +infinity)
RoundDiv(a, b) == (a + b \div 2) \div b

\* Date.setHours(0,0,0,0) and Date.setHours(23,59,59,999)
startOfDay(t) == (t \div MsPerDay) * MsPerDay
endOfDay(t) == startOfDay(t) + MsPerDay - 1

Resp(code, message, body) == [code |-> code, message |-> message, body |-> body]

(***************************************************************************)
(* middleware/auth: tokens, password hashing, the two guards.              *)
(***************************************************************************)
\* Variants, to show what the properties below depend on: a token that lives
\* one hour, and a verification that does not look at exp.
generateTokenOneHour(row, t) ==
  [kind |-> "jwt", id |-> row.id, role |-> row.role, exp |-> (t \div 1000) + 3600]

jwtVerifyIgnoringExpiry(token, t) == token.kind = "jwt"

\* jwt.sign({id, email, role}, JWT_SECRET, {expiresIn: "24h"}): the claims are
\* those of the row at login; exp is in seconds.  The email claim is read by
\* no handler and is left out.
generateToken(row, t) ==
  [kind |-> "jwt", id |-> row.id, role |-> row.role, exp |-> (t \div 1000) + TokenLifeSec]

\* jwt.verify(token, JWT_SECRET): the signature verifies exactly for the tokens
\* generateToken made, and the token is refused from its exp second on
jwtVerify(token, t) == token.kind = "jwt" /\ (t \div 1000) < token.exp

\* bcrypt.hash(password, 10) and bcrypt.compare(password, hash); a stored value
\* that is no bcrypt hash compares false
hashPassword(password) == [alg |-> "bcrypt", of |-> password]
comparePassword(password, hash) == hash = [alg |-> "bcrypt", of |-> password]

authenticateToken(token, t) ==
  IF token.kind = "none"
  THEN [ok |-> FALSE, user |-> NoUser,
        res |-> Resp(401, "Access token required in Authorization header as 'Bearer <token>'", Null)]
  ELSE IF jwtVerify(token, t)
       THEN [ok |-> TRUE, user |-> [id |-> token.id, role |-> token.role], res |-> NoRes]
       ELSE [ok |-> FALSE, user |-> NoUser, res |-> Resp(403, "Invalid or expired token", Null)]

\* A variant of the guard that only asks for an authenticated user, to show
\* what the properties below depend on.
requireRoleOfAnyone(roles, user) ==
  IF user = NoUser
  THEN [ok |-> FALSE, res |-> Resp(401, "Authentication required", Null)]
  ELSE [ok |-> TRUE, res |-> NoRes]

\* A variant that reads the role from the employees table.
requireRoleOfStoredRow(roles, user) ==
  IF user = NoUser
  THEN [ok |-> FALSE, res |-> Resp(401, "Authentication required", Null)]
  ELSE IF user.id \notin Rows(employees) \/ employees[user.id].role \notin roles
       THEN [ok |-> FALSE, res |-> Resp(403, "Insufficient permissions", Null)]
       ELSE [ok |-> TRUE, res |-> NoRes]

requireRole(roles, user) ==
  IF user = NoUser
  THEN [ok |-> FALSE, res |-> Resp(401, "Authentication required", Null)]
  ELSE IF user.role \notin roles
       THEN [ok |-> FALSE, res |-> Resp(403, "Insufficient permissions", Null)]
       ELSE [ok |-> TRUE, res |-> NoRes]

(***************************************************************************)
(* registerRoutes: the middleware chain of every route.                    *)
(***************************************************************************)
Ops == {"login", "me", "listEmployees", "createEmployee", "updateEmployee", "deleteEmployee",
        "checkin", "checkout", "attendanceToday", "attendanceMy",
        "submitLeave", "leaveMy", "leavePending", "decideLeave", "dashboardStats"}

\* the routes registered with authenticateToken
RouteAuth(op) == op # "login"

\* the routes registered with requireRole(["admin"])
AdminOps == {"listEmployees", "createEmployee", "updateEmployee", "deleteEmployee",
             "attendanceToday", "leavePending", "decideLeave", "dashboardStats"}

\* the role list every one of them passes to requireRole
RouteRoles(op) == {"admin"}

(***************************************************************************)
(* shared/schema: the zod schemas the handlers parse a body with.          *)
(***************************************************************************)
\* z.string().email(): the model's strings with an "@" are the addresses
IsEmail(s) == s \in {"a@x", "b@x", "c@x", "z@x"}

loginSchema(body) == IsEmail(body.email) /\ Len(body.password) >= MinPasswordLen

\* createInsertSchema(leaveRequests) without id, createdAt, updatedAt, reviewedBy,
\* reviewedAt, reviewComments: leaveType, startDate, endDate and daysRequested
\* are required, reason and status are optional.  A date of the body is <<>>
\* (missing or no date) or <<ms>>.
insertLeaveRequestSchema(body) ==
  /\ body.leaveType \in LeaveTypes
  /\ body.startDate # Null
  /\ body.endDate # Null
  /\ body.status \in LeaveStatuses \cup {Absent}
  /\ body.daysRequested # Null

\* createInsertSchema(employees) without id, createdAt, updatedAt: email, password
\* and the four profile texts are required; role, leaveBalance and isActive are
\* optional.  Of the profile texts the model keeps department.
insertEmployeeSchema(body) ==
  /\ body.email # Null
  /\ body.password # Null
  /\ body.department # Null
  /\ body.role \in Roles \cup {Absent}

\* z.object({status: z.enum(["approved", "rejected"]), reviewComments: z.string().optional()})
updateLeaveStatusSchema(body) == body.status \in {"approved", "rejected"}

(***************************************************************************)
(* POST /api/leave-requests: the days requested.                           *)
(***************************************************************************)
daysRequested(startDate, endDate) == Ceil(endDate - startDate, MsPerDay) + 1

(***************************************************************************)
(* The synchronous prefix of every handler: what runs between the          *)
(* middleware and the first awaited storage call.  It gives the storage    *)
(* call to make next (pc) with the handler's locals, or the response.      *)
(***************************************************************************)
Await(call, locals) == [pc |-> call, loc |-> locals, res |-> NoRes]
Reply(r) == [pc |-> "idle", loc |-> NoLoc, res |-> r]

loginPrefix(r) ==
  IF loginSchema(r.body)
  THEN Await("getEmployeeByEmail", [user |-> NoUser])
  ELSE Reply(Resp(400, "Invalid request data", Null))

\* A variant that takes the owner from the body when the body names one, to
\* show what the properties below depend on.
submitLeavePrefixTrustingBody(r, user) ==
  IF insertLeaveRequestSchema(r.body)
  THEN Await("createLeaveRequest",
             [user |-> user,
              leaveData |-> [employeeId |-> IF "employeeId" \in DOMAIN r.body
                                            THEN r.body.employeeId ELSE user.id,
                             leaveType |-> r.body.leaveType,
                             startDate |-> r.body.startDate[1],
                             endDate |-> r.body.endDate[1],
                             reason |-> r.body.reason,
                             status |-> r.body.status,
                             daysRequested |-> daysRequested(r.body.startDate[1], r.body.endDate[1])]])
  ELSE Reply(Resp(400, "Invalid leave request data", Null))

\* insertLeaveRequestSchema.parse({...req.body, employeeId: req.user.id}), then
\* daysRequested overwrites the one of the body
submitLeavePrefix(r, user) ==
  IF insertLeaveRequestSchema(r.body)
  THEN Await("createLeaveRequest",
             [user |-> user,
              leaveData |-> [employeeId |-> user.id,
                             leaveType |-> r.body.leaveType,
                             startDate |-> r.body.startDate[1],
                             endDate |-> r.body.endDate[1],
                             reason |-> r.body.reason,
                             status |-> r.body.status,
                             daysRequested |-> daysRequested(r.body.startDate[1], r.body.endDate[1])]])
  ELSE Reply(Resp(400, "Invalid leave request data", Null))

\* updateLeaveStatusSchema.parse(req.body), then reviewedBy: req.user.id
\* A variant that takes the reviewer from the body when the body names one, to
\* show what the properties below depend on.
decideLeavePrefixTrustingBody(r, user) ==
  IF updateLeaveStatusSchema(r.body)
  THEN Await("updateLeaveRequestStatus",
             [user |-> user,
              updates |-> [status |-> r.body.status,
                           reviewComments |-> r.body.reviewComments,
                           reviewedBy |-> IF "reviewedBy" \in DOMAIN r.body
                                          THEN r.body.reviewedBy ELSE user.id]])
  ELSE Reply(Resp(400, "Invalid status update data", Null))

\* updateLeaveStatusSchema.parse(req.body) keeps status and reviewComments only;
\* reviewedBy is req.user.id
decideLeavePrefix(r, user) ==
  IF updateLeaveStatusSchema(r.body)
  THEN Await("updateLeaveRequestStatus",
             [user |-> user,
              updates |-> [status |-> r.body.status,
                           reviewComments |-> r.body.reviewComments,
                           reviewedBy |-> user.id]])
  ELSE Reply(Resp(400, "Invalid status update data", Null))

\* insertEmployeeSchema.parse(req.body), then hashPassword
createEmployeePrefix(r, user) ==
  IF insertEmployeeSchema(r.body)
  THEN Await("createEmployee",
             [user |-> user,
              employee |-> [r.body EXCEPT !.password = Some(hashPassword(r.body.password[1]))]])
  ELSE Reply(Resp(400, "Invalid employee data", Null))

\* updateData = req.body; if (updateData.password) it is hashed: the empty
\* string is falsy and stays as it is
updateEmployeePrefix(r, user) ==
  Await("updateEmployee",
        [user |-> user,
         updateData |-> IF r.body.password # Null /\ r.body.password[1] # ""
                        THEN [r.body EXCEPT !.password = Some(hashPassword(r.body.password[1]))]
                        ELSE [r.body EXCEPT !.password =
                                IF @ = Null THEN Null ELSE Some([alg |-> "plain", of |-> @[1]])]])

Handler(r, user, t) ==
  CASE r.op = "login" -> loginPrefix(r)
    [] r.op = "submitLeave" -> submitLeavePrefix(r, user)
    [] r.op = "decideLeave" -> decideLeavePrefix(r, user)
    [] r.op = "leaveMy" -> Await("getEmployeeLeaveRequests", [user |-> user])
    [] r.op = "leavePending" -> Await("getPendingLeaveRequests", [user |-> user])
    [] r.op = "me" -> Await("getEmployee", [user |-> user])
    [] r.op = "listEmployees" -> Await("getAllEmployees", [user |-> user])
    [] r.op = "createEmployee" -> createEmployeePrefix(r, user)
    [] r.op = "updateEmployee" -> updateEmployeePrefix(r, user)
    [] r.op = "deleteEmployee" -> Await("deleteEmployee", [user |-> user])
    [] r.op = "attendanceToday" -> Await("getTodayAttendance", [user |-> user])
    [] r.op = "dashboardStats" -> Await("getDashboardStats", [user |-> user])
    [] r.op = "checkin" -> Await("checkin_getEmployeeAttendance", [user |-> user, today |-> t])
    [] r.op = "checkout" -> Await("checkout_getEmployeeAttendance", [user |-> user, today |-> t])

\* app.<method>(path, authenticateToken, requireRole([...]), handler)
Dispatch(r, t) ==
  IF ~RouteAuth(r.op) THEN Handler(r, NoUser, t)
  ELSE LET a == authenticateToken(r.token, t) IN
       IF ~a.ok THEN Reply(a.res)
       ELSE IF r.op \notin AdminOps THEN Handler(r, a.user, t)
            ELSE LET g == requireRole(RouteRoles(r.op), a.user) IN
                 IF ~g.ok THEN Reply(g.res) ELSE Handler(r, a.user, t)

Sent(p, op, r) == [proc |-> p, op |-> op, code |-> r.code, message |-> r.message, body |-> r.body]

\* history: the status of the leave request a decision is about, on arrival
StatusOnArrival(r) ==
  IF r.op = "decideLeave" /\ r.id \in Rows(leaveRequests) THEN leaveRequests[r.id].status ELSE ""

\* A request arrives at process p.
Begin(p, r) ==
  /\ pc[p] = "idle"
  /\ LET d == Dispatch(r, now) IN
       /\ pc' = [pc EXCEPT ![p] = d.pc]
       /\ loc' = [loc EXCEPT ![p] = d.loc]
       /\ req' = [req EXCEPT ![p] = IF d.pc = "idle" THEN NoReq ELSE r]
       /\ out' = IF d.pc = "idle" THEN Sent(p, r.op, d.res) ELSE NoOut
       /\ hist' = [hist EXCEPT ![p] = IF d.pc = "idle" THEN "" ELSE StatusOnArrival(r)]
  /\ UNCHANGED <<now, tables, tokens>>

\* The storage call of p has returned and the handler answers.
Finish(p, r) ==
  /\ pc' = [pc EXCEPT ![p] = "idle"]
  /\ req' = [req EXCEPT ![p] = NoReq]
  /\ loc' = [loc EXCEPT ![p] = NoLoc]
  /\ hist' = [hist EXCEPT ![p] = ""]
  /\ out' = Sent(p, req[p].op, r)
  /\ UNCHANGED now

\* The storage call of p has returned and the handler awaits the next one.
Continue(p, call, locals) ==
  /\ pc' = [pc EXCEPT ![p] = call]
  /\ loc' = [loc EXCEPT ![p] = locals]
  /\ out' = NoOut
  /\ UNCHANGED <<now, req, hist>>

\* A variant that keeps the password, to show what the properties below
\* depend on.
withPassword(row) == row

\* const { password: _, ...employeeData } = employee
withoutPassword(row) == [f \in (DOMAIN row) \ {"password"} |-> row[f]]

(***************************************************************************)
(* POST /api/auth/login and GET /api/auth/me                               *)
(***************************************************************************)
getEmployeeByEmail(email) == {i \in Rows(employees) : employees[i].email = email}

\* A variant of the lookup's outcome for an unknown address, to show what the
\* properties below depend on, is a response of its own:
LoginGetTellingUnknown(p) ==
  /\ pc[p] = "getEmployeeByEmail"
  /\ LET found == getEmployeeByEmail(req[p].body.email) IN
       IF found = {}
       THEN Finish(p, Resp(404, "Employee not found", Null)) /\ UNCHANGED tokens
       ELSE \E i \in found :
              IF ~comparePassword(req[p].body.password, employees[i].password)
              THEN Finish(p, Resp(401, "Invalid credentials", Null)) /\ UNCHANGED tokens
              ELSE LET token == generateToken(employees[i], now) IN
                   /\ Finish(p, Resp(200, "", [token |-> token,
                                               employee |-> withoutPassword(employees[i])]))
                   /\ tokens' = tokens \cup {token}
  /\ UNCHANGED tables

LoginGet(p) ==
  /\ pc[p] = "getEmployeeByEmail"
  /\ LET found == getEmployeeByEmail(req[p].body.email) IN
       IF found = {}
       THEN Finish(p, Resp(401, "Invalid credentials", Null)) /\ UNCHANGED tokens
       ELSE \E i \in found :
              IF ~comparePassword(req[p].body.password, employees[i].password)
              THEN Finish(p, Resp(401, "Invalid credentials", Null)) /\ UNCHANGED tokens
              ELSE LET token == generateToken(employees[i], now) IN
                   /\ Finish(p, Resp(200, "", [token |-> token,
                                               employee |-> withoutPassword(employees[i])]))
                   \* the client keeps the token for its later requests
                   /\ tokens' = tokens \cup {token}
  /\ UNCHANGED tables

MeGet(p) ==
  /\ pc[p] = "getEmployee"
  /\ LET id == loc[p].user.id IN
       IF id \notin Rows(employees)
       THEN Finish(p, Resp(404, "Employee not found", Null))
       ELSE Finish(p, Resp(200, "", withoutPassword(employees[id])))
  /\ UNCHANGED <<tables, tokens>>

(***************************************************************************)
(* Employees: storage.ts and the four admin routes.                        *)
(***************************************************************************)
EmployeesListGet(p) ==
  /\ pc[p] = "getAllEmployees"
  /\ Finish(p, Resp(200, "", {withoutPassword(employees[i]) :
                                i \in {j \in Rows(employees) : employees[j].isActive}}))
  /\ UNCHANGED <<tables, tokens>>

\* db.insert(employees).values({...employee, updatedAt: new Date()}).returning()
newEmployee(id, e) ==
  [id |-> id, email |-> e.email[1], password |-> e.password[1], department |-> e.department[1],
   role |-> IF e.role = Absent THEN "employee" ELSE e.role,
   leaveBalance |-> IF e.leaveBalance = Null THEN 20 ELSE e.leaveBalance[1],
   isActive |-> TRUE]

EmployeeCreate(p) ==
  /\ pc[p] = "createEmployee"
  /\ seq.emp < MaxEmp
  /\ IF getEmployeeByEmail(loc[p].employee.email[1]) # {}
     THEN \* email is unique: the insert throws
          /\ Finish(p, Resp(400, "Invalid employee data", Null))
          /\ UNCHANGED <<employees, seq>>
     ELSE LET id == seq.emp + 1
              row == newEmployee(id, loc[p].employee) IN
          /\ employees' = [employees EXCEPT ![id] = row]
          /\ seq' = [seq EXCEPT !.emp = id]
          /\ Finish(p, Resp(201, "", withoutPassword(row)))
  /\ UNCHANGED <<attendance, leaveRequests, tokens>>

\* db.update(employees).set({...employee, updatedAt: new Date()}).where(eq(employees.id, id)):
\* the columns the body names are set, whatever they are
updatedEmployee(row, u) ==
  [row EXCEPT !.email = IF u.email = Null THEN @ ELSE u.email[1],
              !.password = IF u.password = Null THEN @ ELSE u.password[1],
              !.role = IF u.role = Absent THEN @ ELSE u.role,
              !.leaveBalance = IF u.leaveBalance = Null THEN @ ELSE u.leaveBalance[1]]

EmployeeUpdate(p) ==
  /\ pc[p] = "updateEmployee"
  /\ LET id == req[p].id
         u == loc[p].updateData IN
       IF \/ u.role \notin Roles \cup {Absent}
          \/ u.email # Null /\ getEmployeeByEmail(u.email[1]) \ {id} # {} /\ id \in Rows(employees)
       THEN \* no value of the enum, or the email of another row: the update throws
            /\ Finish(p, Resp(400, "Invalid update data", Null))
            /\ UNCHANGED employees
       ELSE IF id \notin Rows(employees)
       THEN /\ Finish(p, Resp(404, "Employee not found", Null))
            /\ UNCHANGED employees
       ELSE /\ employees' = [employees EXCEPT ![id] = updatedEmployee(@, u)]
            /\ Finish(p, Resp(200, "", withoutPassword(employees'[id])))
  /\ UNCHANGED <<attendance, leaveRequests, seq, tokens>>

\* db.delete(employees).where(eq(employees.id, id)): attendance.employee_id and
\* leave_requests.employee_id cascade; leave_requests.reviewed_by does not, and a
\* request that stays and names the employee as its reviewer makes the delete throw
reviewedElsewhere(id) ==
  {i \in Rows(leaveRequests) :
     leaveRequests[i].employeeId # id /\ leaveRequests[i].reviewedBy = Some(id)}

cascade(table, id) ==
  [i \in DOMAIN table |-> IF table[i] # NoRow /\ table[i].employeeId = id THEN NoRow ELSE table[i]]

\* A variant in which a delete that the reviewer reference refuses has removed
\* the owned rows before it fails, to show what the properties below depend on.
EmployeeDeleteInSteps(p) ==
  /\ pc[p] = "deleteEmployee"
  /\ LET id == req[p].id IN
       IF id \notin Rows(employees)
       THEN /\ Finish(p, Resp(404, "Employee not found", Null))
            /\ UNCHANGED <<employees, attendance, leaveRequests>>
       ELSE IF reviewedElsewhere(id) # {}
       THEN /\ Finish(p, Resp(500, "Internal server error", Null))
            /\ attendance' = cascade(attendance, id)
            /\ leaveRequests' = cascade(leaveRequests, id)
            /\ UNCHANGED employees
       ELSE /\ employees' = [employees EXCEPT ![id] = NoRow]
            /\ attendance' = cascade(attendance, id)
            /\ leaveRequests' = cascade(leaveRequests, id)
            /\ Finish(p, Resp(200, "Employee deleted successfully", Null))
  /\ UNCHANGED <<seq, tokens>>

EmployeeDelete(p) ==
  /\ pc[p] = "deleteEmployee"
  /\ LET id == req[p].id IN
       IF id \notin Rows(employees)
       THEN /\ Finish(p, Resp(404, "Employee not found", Null))
            /\ UNCHANGED <<employees, attendance, leaveRequests>>
       ELSE IF reviewedElsewhere(id) # {}
       THEN /\ Finish(p, Resp(500, "Internal server error", Null))
            /\ UNCHANGED <<employees, attendance, leaveRequests>>
       ELSE /\ employees' = [employees EXCEPT ![id] = NoRow]
            /\ attendance' = cascade(attendance, id)
            /\ leaveRequests' = cascade(leaveRequests, id)
            /\ Finish(p, Resp(200, "Employee deleted successfully", Null))
  /\ UNCHANGED <<seq, tokens>>

(***************************************************************************)
(* Leave requests: storage.ts and the four routes.                         *)
(***************************************************************************)
\* A variant that orders the oldest first, to show what the properties below
\* depend on.
OrderByCreatedAsc(table, S) ==
  {s \in [1..Cardinality(S) -> S] :
     /\ \A i, j \in DOMAIN s : i # j => s[i] # s[j]
     /\ \A i, j \in DOMAIN s : i < j => table[s[i]].createdAt <= table[s[j]].createdAt}

\* the sequences that list the rows S of a table by createdAt, newest first;
\* rows of one createdAt come in any order
OrderByCreatedDesc(table, S) ==
  {s \in [1..Cardinality(S) -> S] :
     /\ \A i, j \in DOMAIN s : i # j => s[i] # s[j]
     /\ \A i, j \in DOMAIN s : i < j => table[s[i]].createdAt >= table[s[j]].createdAt}

\* db.insert(leaveRequests).values({...leaveRequest, updatedAt: new Date()}).returning()
newLeaveRequest(id, leaveData, t) ==
  [id |-> id,
   employeeId |-> leaveData.employeeId,
   leaveType |-> leaveData.leaveType,
   startDate |-> leaveData.startDate,
   endDate |-> leaveData.endDate,
   reason |-> leaveData.reason,
   status |-> IF leaveData.status = Absent THEN "pending" ELSE leaveData.status,
   reviewedBy |-> Null,
   reviewedAt |-> Null,
   reviewComments |-> Null,
   daysRequested |-> leaveData.daysRequested,
   createdAt |-> t,
   updatedAt |-> t]

SubmitLeaveCreate(p) ==
  /\ pc[p] = "createLeaveRequest"
  /\ seq.leave < MaxLeave
  /\ IF loc[p].leaveData.employeeId \notin Rows(employees)
     THEN \* employee_id references employees.id: the insert throws
          /\ Finish(p, Resp(400, "Invalid leave request data", Null))
          /\ UNCHANGED <<leaveRequests, seq>>
     ELSE LET id == seq.leave + 1
              row == newLeaveRequest(id, loc[p].leaveData, now) IN
          /\ leaveRequests' = [leaveRequests EXCEPT ![id] = row]
          /\ seq' = [seq EXCEPT !.leave = id]
          /\ Finish(p, Resp(201, "", row))
  /\ UNCHANGED <<employees, attendance, tokens>>

\* db.update(leaveRequests).set({...updates, reviewedAt: new Date(), updatedAt: new Date()})
\*   .where(eq(leaveRequests.id, id)): a key whose value is undefined is not set
updatedLeaveRequest(row, updates, t) ==
  [row EXCEPT !.status = updates.status,
              !.reviewComments = IF updates.reviewComments = Null THEN @ ELSE updates.reviewComments,
              !.reviewedBy = Some(updates.reviewedBy),
              !.reviewedAt = Some(t),
              !.updatedAt = t]

updateLeaveRequestStatus(id, updates, t) ==
  [leaveRequests EXCEPT ![id] = updatedLeaveRequest(@, updates, t)]

\* A variant that takes the days of an approved request from the balance of
\* its owner, to show what the properties below depend on.
DecideLeaveUpdateDebiting(p) ==
  /\ pc[p] = "updateLeaveRequestStatus"
  /\ LET id == req[p].id IN
       IF id \notin Rows(leaveRequests)
       THEN /\ Finish(p, Resp(404, "Leave request not found", Null))
            /\ UNCHANGED <<leaveRequests, employees>>
       ELSE IF loc[p].updates.reviewedBy \notin Rows(employees)
       THEN /\ Finish(p, Resp(400, "Invalid status update data", Null))
            /\ UNCHANGED <<leaveRequests, employees>>
       ELSE /\ leaveRequests' = updateLeaveRequestStatus(id, loc[p].updates, now)
            /\ employees' =
                 IF loc[p].updates.status = "approved"
                 THEN [employees EXCEPT ![leaveRequests[id].employeeId].leaveBalance =
                         @ - leaveRequests[id].daysRequested]
                 ELSE employees
            /\ Finish(p, Resp(200, "", leaveRequests'[id]))
  /\ UNCHANGED <<attendance, seq, tokens>>

DecideLeaveUpdate(p) ==
  /\ pc[p] = "updateLeaveRequestStatus"
  /\ LET id == req[p].id IN
       IF id \notin Rows(leaveRequests)
       THEN /\ Finish(p, Resp(404, "Leave request not found", Null))
            /\ UNCHANGED leaveRequests
       ELSE IF loc[p].updates.reviewedBy \notin Rows(employees)
       THEN \* reviewed_by references employees.id: the update throws
            /\ Finish(p, Resp(400, "Invalid status update data", Null))
            /\ UNCHANGED leaveRequests
       ELSE /\ leaveRequests' = updateLeaveRequestStatus(id, loc[p].updates, now)
            /\ Finish(p, Resp(200, "", leaveRequests'[id]))
  /\ UNCHANGED <<employees, attendance, seq, tokens>>

getEmployeeLeaveRequests(employeeId) ==
  OrderByCreatedDesc(leaveRequests,
                     {i \in Rows(leaveRequests) : leaveRequests[i].employeeId = employeeId})

LeaveMyGet(p) ==
  /\ pc[p] = "getEmployeeLeaveRequests"
  /\ \E s \in getEmployeeLeaveRequests(loc[p].user.id) :
       Finish(p, Resp(200, "", [k \in DOMAIN s |-> leaveRequests[s[k]]]))
  /\ UNCHANGED <<tables, tokens>>

\* A variant without the test of the status, to show what the properties
\* below depend on.
getPendingLeaveRequestsOfAnyStatus ==
  OrderByCreatedDesc(leaveRequests,
                     {i \in Rows(leaveRequests) : leaveRequests[i].employeeId \in Rows(employees)})

\* the inner join keeps the requests whose employee exists and embeds the row
getPendingLeaveRequests ==
  OrderByCreatedDesc(leaveRequests,
                     {i \in Rows(leaveRequests) :
                        /\ leaveRequests[i].status = "pending"
                        /\ leaveRequests[i].employeeId \in Rows(employees)})

LeavePendingGet(p) ==
  /\ pc[p] = "getPendingLeaveRequests"
  /\ \E s \in getPendingLeaveRequests :
       Finish(p, Resp(200, "", [k \in DOMAIN s |->
                                 [request |-> leaveRequests[s[k]],
                                  employee |-> employees[leaveRequests[s[k]].employeeId]]]))
  /\ UNCHANGED <<tables, tokens>>

(***************************************************************************)
(* Attendance: storage.ts and the check-in and check-out routes.           *)
(***************************************************************************)
\* Variants of the lookup, to show what the properties below depend on: one
\* that searches from the given instant instead of from the start of its day,
\* and one that does not filter by employee.
getEmployeeAttendanceFromInstant(employeeId, date) ==
  {i \in Rows(attendance) :
     /\ attendance[i].employeeId = employeeId
     /\ attendance[i].date >= date
     /\ attendance[i].date <= endOfDay(date)}

getEmployeeAttendanceOfAnyone(employeeId, date) ==
  {i \in Rows(attendance) :
     /\ attendance[i].date >= startOfDay(date)
     /\ attendance[i].date <= endOfDay(date)}

\* the rows of the employee whose date is in the day of `date`; the handler
\* takes the first row the database returns, which is any of them
getEmployeeAttendance(employeeId, date) ==
  {i \in Rows(attendance) :
     /\ attendance[i].employeeId = employeeId
     /\ attendance[i].date >= startOfDay(date)
     /\ attendance[i].date <= endOfDay(date)}

CheckInGet(p) ==
  /\ pc[p] = "checkin_getEmployeeAttendance"
  /\ IF getEmployeeAttendance(loc[p].user.id, loc[p].today) # {}
     THEN Finish(p, Resp(400, "Already checked in today", Null))
     ELSE Continue(p, "createAttendance", loc[p])
  /\ UNCHANGED <<tables, tokens>>

\* createAttendance({employeeId, date: today, checkInTime: today, status: "present"});
\* hours_worked takes its default.  createdAt, which nothing reads, is left out.
newAttendance(id, employeeId, today) ==
  [id |-> id, employeeId |-> employeeId, date |-> today, checkInTime |-> Some(today),
   checkOutTime |-> Null, hoursWorked |-> 0, status |-> "present"]

CheckInCreate(p) ==
  /\ pc[p] = "createAttendance"
  /\ seq.att < MaxAtt
  /\ IF loc[p].user.id \notin Rows(employees)
     THEN \* employee_id references employees.id: the insert throws
          /\ Finish(p, Resp(500, "Internal server error", Null))
          /\ UNCHANGED <<attendance, seq>>
     ELSE LET id == seq.att + 1
              row == newAttendance(id, loc[p].user.id, loc[p].today) IN
          /\ attendance' = [attendance EXCEPT ![id] = row]
          /\ seq' = [seq EXCEPT !.att = id]
          /\ Finish(p, Resp(201, "", row))
  /\ UNCHANGED <<employees, leaveRequests, tokens>>

\* Math.round((checkOutTime - checkInTime) / (1000 * 60 * 60) * 10) / 10, in tenths
\* of an hour
hoursWorked10(checkInTime, checkOutTime) ==
  IF checkInTime # Null THEN RoundDiv(checkOutTime - checkInTime[1], MsPerHour \div 10) ELSE 0

CheckOutGet(p) ==
  /\ pc[p] = "checkout_getEmployeeAttendance"
  /\ LET found == getEmployeeAttendance(loc[p].user.id, loc[p].today) IN
       IF found = {}
       THEN Finish(p, Resp(400, "No check-in found for today", Null))
       ELSE \E i \in found :
              IF attendance[i].checkOutTime # Null
              THEN Finish(p, Resp(400, "Already checked out today", Null))
              ELSE Continue(p, "updateAttendance",
                            [user |-> loc[p].user, id |-> i, checkOutTime |-> now,
                             hoursWorked10 |-> hoursWorked10(attendance[i].checkInTime, now)])
  /\ UNCHANGED <<tables, tokens>>

\* hours_worked is an integer column: the database refuses a value with a
\* fraction (invalid input syntax for type integer) and the update throws
IsInteger10(tenths) == tenths % 10 = 0

\* A variant that also sets the status, to show what the properties below
\* depend on.
updateAttendanceAndStatus(id, checkOutTime, tenths) ==
  [attendance EXCEPT ![id] = [@ EXCEPT !.checkOutTime = Some(checkOutTime),
                                       !.hoursWorked = tenths \div 10,
                                       !.status = "absent"]]

\* db.update(attendance).set(updates).where(eq(attendance.id, id)).returning()
updateAttendance(id, checkOutTime, tenths) ==
  [attendance EXCEPT ![id] = [@ EXCEPT !.checkOutTime = Some(checkOutTime),
                                       !.hoursWorked = tenths \div 10]]

CheckOutUpdate(p) ==
  /\ pc[p] = "updateAttendance"
  /\ IF ~IsInteger10(loc[p].hoursWorked10)
     THEN /\ Finish(p, Resp(500, "Internal server error", Null))
          /\ UNCHANGED attendance
     ELSE IF loc[p].id \notin Rows(attendance)
     THEN \* no row is updated and res.json(undefined) answers 200
          /\ Finish(p, Resp(200, "", Null))
          /\ UNCHANGED attendance
     ELSE /\ attendance' = updateAttendance(loc[p].id, loc[p].checkOutTime, loc[p].hoursWorked10)
          /\ Finish(p, Resp(200, "", attendance'[loc[p].id]))
  /\ UNCHANGED <<employees, leaveRequests, seq, tokens>>

\* the rows of the day of t, each with the row of its employee (an inner join)
getTodayAttendance(t) ==
  {[attendance |-> attendance[i], employee |-> employees[attendance[i].employeeId]] :
     i \in {j \in Rows(attendance) :
              /\ attendance[j].date >= startOfDay(t)
              /\ attendance[j].date <= endOfDay(t)
              /\ attendance[j].employeeId \in Rows(employees)}}

AttendanceTodayGet(p) ==
  /\ pc[p] = "getTodayAttendance"
  /\ Finish(p, Resp(200, "", getTodayAttendance(now)))
  /\ UNCHANGED <<tables, tokens>>

(***************************************************************************)
(* GET /api/dashboard/stats: four counts, read one after the other; the    *)
(* model reads them in one step.                                           *)
(***************************************************************************)
getDashboardStats(t) ==
  LET active == {i \in Rows(employees) : employees[i].isActive} IN
  [totalEmployees |-> Cardinality(active),
   presentToday |-> Cardinality({i \in Rows(attendance) :
                                   /\ attendance[i].date >= startOfDay(t)
                                   /\ attendance[i].date <= endOfDay(t)
                                   /\ attendance[i].status = "present"}),
   pendingLeaves |-> Cardinality({i \in Rows(leaveRequests) : leaveRequests[i].status = "pending"}),
   departments |-> Cardinality({employees[i].department : i \in active})]

DashboardStatsGet(p) ==
  /\ pc[p] = "getDashboardStats"
  /\ Finish(p, Resp(200, "", getDashboardStats(now)))
  /\ UNCHANGED <<tables, tokens>>

(***************************************************************************)
(* The clock.                                                              *)
(***************************************************************************)
Tick(T) == /\ \E t \in T : t > now /\ now' = t
           /\ out' = NoOut
           /\ UNCHANGED <<tables, tokens, pc, req, loc, hist>>

(***************************************************************************)
(* The state after the server starts on a seeded database: an             *)
(* administrator (1) and an employee (2), no request in flight.            *)
(***************************************************************************)
seedEmployee(id, email, password, department, role) ==
  [id |-> id, email |-> email, password |-> hashPassword(password), department |-> department,
   role |-> role, leaveBalance |-> 20, isActive |-> TRUE]

SeedEmployees ==
  [i \in EmpIds |->
     CASE i = 1 -> seedEmployee(1, "a@x", "adminpw", "hr", "admin")
       [] i = 2 -> seedEmployee(2, "b@x", "secret", "eng", "employee")
       [] OTHER -> NoRow]

EmptyTable(ids) == [i \in ids |-> NoRow]

InitProcs ==
  /\ pc = [p \in Procs |-> "idle"]
  /\ req = [p \in Procs |-> NoReq]
  /\ loc = [p \in Procs |-> NoLoc]
  /\ out = NoOut
  /\ hist = [p \in Procs |-> ""]

Init ==
  /\ now = 0
  /\ tokens = {}
  /\ employees = SeedEmployees
  /\ attendance = EmptyTable(AttIds)
  /\ leaveRequests = EmptyTable(LeaveIds)
  /\ seq = [emp |-> 2, att |-> 0, leave |-> 0]
  /\ InitProcs

\* States the server reaches from Init.  The seeded users have logged in at
\* time t and the clients hold their tokens:
SeedTokens(t) == {generateToken(SeedEmployees[i], t) : i \in {1, 2}}

LoggedIn(t) ==
  /\ now = t
  /\ tokens = SeedTokens(t)
  /\ employees = SeedEmployees
  /\ attendance = EmptyTable(AttIds)
  /\ leaveRequests = EmptyTable(LeaveIds)
  /\ seq = [emp |-> 2, att |-> 0, leave |-> 0]
  /\ InitProcs

\* then the administrator (1) has checked in:
AdminCheckedIn(t) ==
  /\ now = t
  /\ tokens = SeedTokens(t)
  /\ employees = SeedEmployees
  /\ attendance = [EmptyTable(AttIds) EXCEPT ![1] = newAttendance(1, 1, t)]
  /\ leaveRequests = EmptyTable(LeaveIds)
  /\ seq = [emp |-> 2, att |-> 1, leave |-> 0]
  /\ InitProcs

\* or employee 2 has checked in and has submitted a leave request:
Populated(t) ==
  /\ now = t
  /\ tokens = SeedTokens(t)
  /\ employees = SeedEmployees
  /\ attendance = [EmptyTable(AttIds) EXCEPT ![1] = newAttendance(1, 2, t)]
  /\ leaveRequests =
       [EmptyTable(LeaveIds) EXCEPT ![1] =
          newLeaveRequest(1, [employeeId |-> 2, leaveType |-> "vacation", startDate |-> 0,
                              endDate |-> 2 * MsPerDay, reason |-> Null, status |-> Absent,
                              daysRequested |-> daysRequested(0, 2 * MsPerDay)], t)]
  /\ seq = [emp |-> 2, att |-> 1, leave |-> 1]
  /\ InitProcs

(***************************************************************************)
(* The requests the clients send, with a token that was issued.           *)
(***************************************************************************)
Request(op, token, id, body) == [op |-> op, token |-> token, id |-> id, body |-> body]

LoginRequests(creds) ==
  {Request("login", NoToken, 0, c) : c \in creds}

SeedCredentials ==
  {[email |-> "a@x", password |-> "adminpw"], [email |-> "b@x", password |-> "secret"]}

LeaveBody(leaveType, startDate, endDate, reason, status, days) ==
  [leaveType |-> leaveType, startDate |-> startDate, endDate |-> endDate,
   reason |-> reason, status |-> status, daysRequested |-> days]

DecideBody(status, comments) == [status |-> status, reviewComments |-> comments]

EmployeeBody(email, password, department, role, leaveBalance) ==
  [email |-> email, password |-> password, department |-> department, role |-> role,
   leaveBalance |-> leaveBalance]

(***************************************************************************)
(* SpecLeave: the leave request workflow of the two seeded users, who      *)
(* logged in at time 0: employee 2 submits and both decide; two requests   *)
(* may be in flight at once.                                               *)
(***************************************************************************)
LeaveSubmitBodies ==
  {LeaveBody("vacation", Some(0), Some(2 * MsPerDay), Null, Absent, Some(1)),
   LeaveBody("sick", Some(2 * MsPerDay), Some(0), Some("flu"), Absent, Some(1)),
   LeaveBody("sick", Some(0), Some(0), Null, Absent, Null),
   LeaveBody("personal", Some(0), Some(0), Null, "approved", Some(1))}

LeaveDecideBodies ==
  {DecideBody("approved", Some("ok")), DecideBody("rejected", Null), DecideBody("pending", Null)}

LeaveWorkload ==
  {Request("submitLeave", t, 0, b) : t \in {x \in tokens : x.id = 2}, b \in LeaveSubmitBodies}
  \cup {Request("decideLeave", t, id, b) : t \in tokens, id \in LeaveIds, b \in LeaveDecideBodies}

NextLeave ==
  \/ \E p \in Procs : \E r \in LeaveWorkload : Begin(p, r)
  \/ \E p \in Procs : SubmitLeaveCreate(p)
  \/ \E p \in Procs : DecideLeaveUpdate(p)

SpecLeave == LoggedIn(0) /\ [][NextLeave]_vars

(***************************************************************************)
(* SpecAttendance: the check-ins and check-outs of employee 2 over two     *)
(* days, from 09:00 of day 0, when the administrator has checked in; two   *)
(* requests may be in flight at once.                                      *)
(***************************************************************************)
AttendanceClock == {9 * MsPerHour, 17 * MsPerHour, 17 * MsPerHour + MsPerHour \div 2,
                    MsPerDay + 8 * MsPerHour}

AttendanceWorkload ==
  {Request(op, t, 0, NoBody) : op \in {"checkin", "checkout"}, t \in {x \in tokens : x.id = 2}}

NextAttendance ==
  \/ \E p \in Procs : \E r \in AttendanceWorkload : Begin(p, r)
  \/ \E p \in Procs : CheckInGet(p)
  \/ \E p \in Procs : CheckInCreate(p)
  \/ \E p \in Procs : CheckOutGet(p)
  \/ \E p \in Procs : CheckOutUpdate(p)
  \/ Tick(AttendanceClock)

SpecAttendance == AdminCheckedIn(9 * MsPerHour) /\ [][NextAttendance]_vars

(***************************************************************************)
(* SpecAccess: the routes, called without a token, with a token that does  *)
(* not verify and with the tokens of the two seeded users, one request at  *)
(* a time, on a database that holds an attendance row and a leave request; *)
(* the tokens expire when the clock reaches 24 h.                          *)
(***************************************************************************)
AccessProcs == {"p1"}
AccessClock == {MsPerDay}

AccessBodies(op) ==
  CASE op = "createEmployee" ->
         {EmployeeBody(Some("c@x"), Some("newpass"), Some("eng"), Absent, Null),
          EmployeeBody(Some("c@x"), Null, Some("eng"), Absent, Null)}
    [] op = "updateEmployee" -> {EmployeeBody(Null, Null, Null, "admin", Null)}
    [] op = "decideLeave" -> {DecideBody("approved", Some("ok"))}
    [] OTHER -> {NoBody}

AccessIds(op) ==
  CASE op \in {"updateEmployee", "deleteEmployee"} -> {2, 3}
    [] op = "decideLeave" -> {1}
    [] OTHER -> {0}

\* the other routes registered with authenticateToken are called without a
\* token that verifies
AccessWorkload ==
  UNION {{Request(op, t, id, b) : t \in tokens \cup {NoToken, BadToken},
                                   id \in AccessIds(op), b \in AccessBodies(op)} :
         op \in AdminOps \cup {"me", "leaveMy"}}
  \cup {Request(op, t, 0, NoBody) : op \in {"checkin", "checkout", "attendanceMy", "submitLeave"},
                                    t \in {NoToken, BadToken}}

NextAccess ==
  \/ \E p \in AccessProcs : \E r \in AccessWorkload : Begin(p, r)
  \/ \E p \in AccessProcs : MeGet(p)
  \/ \E p \in AccessProcs : EmployeesListGet(p)
  \/ \E p \in AccessProcs : EmployeeCreate(p)
  \/ \E p \in AccessProcs : EmployeeUpdate(p)
  \/ \E p \in AccessProcs : EmployeeDelete(p)
  \/ \E p \in AccessProcs : AttendanceTodayGet(p)
  \/ \E p \in AccessProcs : LeaveMyGet(p)
  \/ \E p \in AccessProcs : LeavePendingGet(p)
  \/ \E p \in AccessProcs : DecideLeaveUpdate(p)
  \/ \E p \in AccessProcs : DashboardStatsGet(p)
  \/ Tick(AccessClock)

SpecAccess == Populated(0) /\ [][NextAccess]_vars

(***************************************************************************)
(* SpecDays: employee 2 submits leave requests whose dates are any pair of *)
(* instants of two days, at midnight or not, with a daysRequested of his *)
(* own in the body; one request at a time.                                 *)
(***************************************************************************)
DaysProcs == {"p1"}

DaysInstants == {0, 1, MsPerDay \div 2, MsPerDay, MsPerDay + MsPerDay \div 2}

DaysWorkload ==
  {Request("submitLeave", t, 0, LeaveBody("vacation", Some(s), Some(e), Null, Absent, Some(d))) :
     t \in {x \in tokens : x.id = 2}, s \in DaysInstants, e \in DaysInstants, d \in {1, 7}}

NextDays ==
  \/ \E p \in DaysProcs : \E r \in DaysWorkload : Begin(p, r)
  \/ \E p \in DaysProcs : SubmitLeaveCreate(p)

SpecDays == LoggedIn(0) /\ [][NextDays]_vars

(***************************************************************************)
(* Properties of the leave workflow (SpecLeave).                           *)
(***************************************************************************)
Decided(row) == row.status \in {"approved", "rejected"}

Failed(o) == o.code >= 400

\* p's decision reaches the database and its handler answers
DecideStep(p) == pc[p] = "updateLeaveRequestStatus" /\ pc'[p] = "idle"

\* C1: a decision on a leave request that is already approved or rejected
\* fails, and the request keeps its status, reviewer, review time and comments.
C1_DecideOnDecidedFails ==
  [][\A p \in Procs :
       (/\ DecideStep(p)
        /\ req[p].id \in Rows(leaveRequests)
        /\ Decided(leaveRequests[req[p].id]))
       => /\ Failed(out')
          /\ leaveRequests'[req[p].id] = leaveRequests[req[p].id]]_vars

\* C2: the status of a leave request starts as pending and, once it is approved
\* or rejected, never changes again: it changes at most once.
C2_StatusChangesAtMostOnce ==
  [][\A i \in LeaveIds :
       /\ (leaveRequests[i] = NoRow /\ leaveRequests'[i] # NoRow)
            => leaveRequests'[i].status = "pending"
       /\ (leaveRequests[i] # NoRow /\ Decided(leaveRequests[i]))
            => /\ leaveRequests'[i] # NoRow
               /\ leaveRequests'[i].status = leaveRequests[i].status]_vars

\* C3: of the decisions that arrive while a leave request is pending, at most
\* one succeeds: one that reaches the database after another has decided the
\* request fails and leaves the other's outcome in place.
C3_ConcurrentDecideOneWins ==
  [][\A p \in Procs :
       (/\ DecideStep(p)
        /\ hist[p] = "pending"
        /\ req[p].id \in Rows(leaveRequests)
        /\ leaveRequests[req[p].id].status # "pending")
       => /\ Failed(out')
          /\ leaveRequests'[req[p].id].status = leaveRequests[req[p].id].status
          /\ leaveRequests'[req[p].id].reviewedBy = leaveRequests[req[p].id].reviewedBy]_vars

\* C7: no submit whose endDate is before its startDate succeeds, and every
\* stored leave request has endDate >= startDate and daysRequested >= 1.
C7_InvertedRangeRejected ==
  /\ (out.op = "submitLeave" /\ out.code = 201) => out.body.endDate >= out.body.startDate
  /\ \A i \in Rows(leaveRequests) :
        /\ leaveRequests[i].endDate >= leaveRequests[i].startDate
        /\ leaveRequests[i].daysRequested >= 1

(***************************************************************************)
(* Properties of the days requested (SpecDays).                            *)
(***************************************************************************)
\* C8: a successful submit with endDate >= startDate stores
\* floor((endDate - startDate) in days) + 1 as daysRequested, at midnight or not.
C8_DaysRequestedIsFloorPlusOne ==
  (out.op = "submitLeave" /\ out.code = 201 /\ out.body.endDate >= out.body.startDate)
  => /\ out.body.daysRequested = ((out.body.endDate - out.body.startDate) \div MsPerDay) + 1
     /\ leaveRequests[out.body.id].daysRequested = out.body.daysRequested

(***************************************************************************)
(* Properties of the attendance (SpecAttendance).                          *)
(***************************************************************************)
SameDay(t1, t2) == t1 \div MsPerDay = t2 \div MsPerDay

\* the records of an employee dated on the day of instant t
RecordsOn(employeeId, t) ==
  {i \in Rows(attendance) :
     attendance[i].employeeId = employeeId /\ SameDay(attendance[i].date, t)}

\* C4: a check-in of an employee who has a record of the day, checked out or
\* not, fails with "Already checked in today" and leaves the records as they are.
C4_SecondCheckInFails ==
  [][\A p \in Procs :
       (/\ pc[p] = "checkin_getEmployeeAttendance"
        /\ pc'[p] # pc[p]
        /\ RecordsOn(loc[p].user.id, loc[p].today) # {})
       => /\ out' = Sent(p, "checkin", Resp(400, "Already checked in today", Null))
          /\ pc'[p] = "idle"
          /\ attendance' = attendance
          /\ seq' = seq]_vars

\* a second check-in was refused after the first record was checked out
C4_Witness ==
  /\ out.op = "checkin"
  /\ out.code = 400
  /\ out.message = "Already checked in today"
  /\ \E i \in RecordsOn(2, now) : attendance[i].checkOutTime # Null

\* C5: there is at most one attendance record per employee and day, whatever
\* the interleaving of the check-ins.
C5_OneRecordPerEmployeeDay ==
  \A i, j \in Rows(attendance) :
    (attendance[i].employeeId = attendance[j].employeeId
     /\ SameDay(attendance[i].date, attendance[j].date)) => i = j

\* C6: a check-out of an employee without a record of the day fails with
\* "No check-in found for today" and creates nothing; one of an employee whose
\* records of the day have a check-out time fails with "Already checked out
\* today" and leaves the records as they are.
C6_CheckOutWithoutOpenRecordFails ==
  [][\A p \in Procs :
       (pc[p] = "checkout_getEmployeeAttendance" /\ pc'[p] # pc[p])
       => LET mine == RecordsOn(loc[p].user.id, loc[p].today) IN
          /\ mine = {}
               => /\ out' = Sent(p, "checkout", Resp(400, "No check-in found for today", Null))
                  /\ pc'[p] = "idle"
                  /\ attendance' = attendance
                  /\ seq' = seq
          /\ (mine # {} /\ \A i \in mine : attendance[i].checkOutTime # Null)
               => /\ out' = Sent(p, "checkout", Resp(400, "Already checked out today", Null))
                  /\ pc'[p] = "idle"
                  /\ attendance' = attendance
                  /\ seq' = seq]_vars

\* a check-out of employee 2 was refused on a day whose records of his are all
\* checked out
C6_Witness ==
  /\ out.op = "checkout"
  /\ out.code = 400
  /\ out.message = "Already checked out today"
  /\ RecordsOn(2, now) # {}
  /\ \A i \in RecordsOn(2, now) : attendance[i].checkOutTime # Null

\* C9: a check-out of an open record stores the check-out time and the hours
\* between check-in and check-out rounded half up to one decimal, whatever the
\* duration (09:00 to 17:30 stores 8.5).
C9_HoursWorkedOneDecimal ==
  [][\A p \in Procs :
       (/\ pc[p] = "updateAttendance"
        /\ pc'[p] = "idle"
        /\ loc[p].id \in Rows(attendance)
        /\ attendance[loc[p].id].checkInTime # Null)
       => LET row == attendance[loc[p].id]
              tenths == RoundDiv((loc[p].checkOutTime - row.checkInTime[1]) * 10, MsPerHour) IN
          /\ out'.code = 200
          /\ attendance'[row.id].checkOutTime = Some(loc[p].checkOutTime)
          /\ attendance'[row.id].hoursWorked * 10 = tenths]_vars

(***************************************************************************)
(* Properties of the access control (SpecAccess).                          *)
(***************************************************************************)
C10Ops ==
  {"listEmployees", "createEmployee", "updateEmployee", "deleteEmployee",
   "attendanceToday", "leavePending", "decideLeave", "dashboardStats"}

\* C10: a request for an administrator's operation with a valid token of role
\* employee is answered 403 "Insufficient permissions": no storage call is
\* made and the tables are unchanged.
C10_EmployeeIsForbidden ==
  [][\A p \in AccessProcs : \A r \in AccessWorkload :
       (/\ r.op \in C10Ops
        /\ r.token.kind = "jwt"
        /\ r.token.role = "employee"
        /\ jwtVerify(r.token, now)
        /\ out'.op = r.op \/ req'[p] = r
        /\ Begin(p, r))
       => /\ out' = Sent(p, r.op, Resp(403, "Insufficient permissions", Null))
          /\ pc'[p] = "idle"
          /\ tables' = tables]_vars

\* the employee's decision on the pending leave request was refused
C10_Witness ==
  /\ out.op = "decideLeave"
  /\ out.code = 403
  /\ out.message = "Insufficient permissions"
  /\ leaveRequests[1].status = "pending"

\* C11: on every route registered with authenticateToken a request without a
\* token is answered 401 and one whose token does not verify (bad signature or
\* expired) is answered 403 "Invalid or expired token", whatever the role check
\* or the handler would have said: no storage call is made and the tables are
\* unchanged.  A token that verifies meets the role check before the handler.
TokenVerifies(token, t) == token.kind = "jwt" /\ token \in tokens /\ t \div 1000 < token.exp

C11_IdentityThenRoleThenHandler ==
  [][\A p \in AccessProcs : \A r \in AccessWorkload :
       (/\ RouteAuth(r.op)
        /\ pc[p] = "idle"
        /\ ~TokenVerifies(r.token, now) \/ (r.op \in C10Ops /\ r.token.role # "admin")
        /\ out'.op = r.op \/ req'[p] = r
        /\ Begin(p, r))
       => /\ pc'[p] = "idle"
          /\ tables' = tables
          /\ r.token = NoToken
               => out' = Sent(p, r.op, Resp(401, "Access token required in Authorization header as 'Bearer <token>'", Null))
          /\ (r.token # NoToken /\ ~TokenVerifies(r.token, now))
               => out' = Sent(p, r.op, Resp(403, "Invalid or expired token", Null))
          /\ TokenVerifies(r.token, now)
               => out' = Sent(p, r.op, Resp(403, "Insufficient permissions", Null))]_vars

\* the administrator's token has expired and his request to delete an employee
\* was refused
C11_Witness ==
  /\ now >= MsPerDay
  /\ out.op = "deleteEmployee"
  /\ out.code = 403
  /\ out.message = "Invalid or expired token"
  /\ 2 \in Rows(employees)

(***************************************************************************)
(* SpecSession: logins with the right password, a wrong one, one that is   *)
(* too short and an unknown address, at instants one day apart, and        *)
(* GET /api/auth/me with the tokens the logins issued; one request at a    *)
(* time.                                                                   *)
(***************************************************************************)
SessionProcs == {"p1"}

SessionClock == {500, MsPerDay - 500, MsPerDay + 500, MsPerDay + 1500}

SessionCredentials ==
  SeedCredentials
  \cup {[email |-> "b@x", password |-> "wrongpw"], [email |-> "z@x", password |-> "secret"],
        [email |-> "b@x", password |-> "short"]}

SessionWorkload ==
  LoginRequests(SessionCredentials) \cup {Request("me", t, 0, NoBody) : t \in tokens}

NextSession ==
  \/ \E p \in SessionProcs : \E r \in SessionWorkload : Begin(p, r)
  \/ \E p \in SessionProcs : LoginGet(p)
  \/ \E p \in SessionProcs : MeGet(p)
  \/ Tick(SessionClock)

SpecSession == Init /\ [][NextSession]_vars

\* the ages at which a token is presented, in ms
TokenAges ==
  {0, 1, 1000, MsPerDay \div 2, MsPerDay - 1001, MsPerDay - 1000,
   MsPerDay + 1000, MsPerDay + 1001, 2 * MsPerDay}

\* C12: the token a login issues at time t is accepted at every time up to
\* t + 23h59m59s and refused with 403 "Invalid or expired token" at every time
\* from t + 24h + 1s on.
C12_TokenLivesOneDay ==
  (out.op = "login" /\ out.code = 200)
  => \A age \in TokenAges :
       LET a == authenticateToken(out.body.token, now + age) IN
       /\ age <= MsPerDay - 1000
            => a.ok /\ a.user = [id |-> out.body.employee.id, role |-> out.body.employee.role]
       /\ age >= MsPerDay + 1000
            => ~a.ok /\ a.res = Resp(403, "Invalid or expired token", Null)

\* the only token issued so far was issued in the first second, and a request
\* with it was refused one day and 1.5 s later
C12_Witness ==
  /\ now = MsPerDay + 1500
  /\ \A t \in tokens : t.exp = TokenLifeSec
  /\ tokens # {}
  /\ out.op = "me"
  /\ out.code = 403
  /\ out.message = "Invalid or expired token"

\* C13: a well-formed login whose address matches no employee and one whose
\* address matches but whose password is wrong get the same response, 401
\* "Invalid credentials", and no token is issued.
C13_LoginFailuresAlike ==
  [][\A p \in SessionProcs :
       (/\ pc[p] = "getEmployeeByEmail"
        /\ pc'[p] = "idle"
        /\ LET known == {i \in Rows(employees) : employees[i].email = req[p].body.email} IN
             \/ known = {}
             \/ \A i \in known : employees[i].password # hashPassword(req[p].body.password))
       => /\ out' = Sent(p, "login", Resp(401, "Invalid credentials", Null))
          /\ tokens' = tokens
          /\ tables' = tables]_vars

\* a login was refused with 401 "Invalid credentials" before any token was issued
C13_Witness ==
  /\ out.op = "login"
  /\ out.code = 401
  /\ out.message = "Invalid credentials"
  /\ out.body = Null
  /\ tokens = {}

\* C14: every leave request a submit creates is stored with status pending
\* and without reviewer, review time and review comments, whatever the body
\* carries, and belongs to the employee of the caller's token.
C14_CreatedPending ==
  [][\A p \in Procs :
       (pc[p] = "createLeaveRequest" /\ pc'[p] = "idle" /\ out'.code = 201)
       => LET row == leaveRequests'[out'.body.id] IN
          /\ row = out'.body
          /\ row.status = "pending"
          /\ row.reviewedBy = Null
          /\ row.reviewedAt = Null
          /\ row.reviewComments = Null
          /\ row.employeeId = loc[p].user.id]_vars

(***************************************************************************)
(* SpecReview: decisions on the pending leave request of employee 2, with  *)
(* and without comments and with a reviewer named in the body, while the   *)
(* administrator's role is changed to employee; two requests may be in     *)
(* flight at once and the clock advances.                                  *)
(***************************************************************************)
ReviewClock == {MsPerHour, 2 * MsPerHour}

ReviewDecideBodies ==
  {DecideBody("approved", Some("ok")), DecideBody("rejected", Null),
   [status |-> "rejected", reviewComments |-> Some("no"), reviewedBy |-> 2]}

ReviewWorkload ==
  {Request("decideLeave", t, id, b) : t \in tokens, id \in LeaveIds, b \in ReviewDecideBodies}
  \cup {Request("updateEmployee", t, 1, EmployeeBody(Null, Null, Null, "employee", Null)) :
          t \in tokens}

NextReview ==
  \/ \E p \in Procs : \E r \in ReviewWorkload : Begin(p, r)
  \/ \E p \in Procs : DecideLeaveUpdate(p)
  \/ \E p \in Procs : EmployeeUpdate(p)
  \/ Tick(ReviewClock)

SpecReview == Populated(0) /\ [][NextReview]_vars

\* C15: a successful decision on a request that is pending sets status to the
\* decision, reviewedBy to the id of the caller's token (not to an id of the
\* body), reviewedAt and updatedAt to the current time and reviewComments to
\* the comments, or leaves it null when there are none; nothing else changes.
C15_DecideSetsReviewFields ==
  [][\A p \in Procs :
       (/\ DecideStep(p)
        /\ req[p].id \in Rows(leaveRequests)
        /\ leaveRequests[req[p].id].status = "pending"
        /\ out'.code = 200)
       => LET old == leaveRequests[req[p].id]
              new == leaveRequests'[req[p].id] IN
          /\ new.status = req[p].body.status
          /\ new.reviewedBy = Some(req[p].token.id)
          /\ new.reviewedAt = Some(now)
          /\ new.updatedAt = now
          /\ new.reviewComments = req[p].body.reviewComments
          /\ new = [old EXCEPT !.status = new.status, !.reviewedBy = new.reviewedBy,
                               !.reviewedAt = new.reviewedAt, !.updatedAt = new.updatedAt,
                               !.reviewComments = new.reviewComments]
          /\ out'.body = new
          /\ \A i \in LeaveIds \ {req[p].id} : leaveRequests'[i] = leaveRequests[i]]_vars

\* the request was decided two hours after it was made, by the administrator,
\* with a body that named employee 2 as the reviewer
C15_Witness ==
  /\ out.op = "decideLeave"
  /\ out.code = 200
  /\ leaveRequests[1].status = "rejected"
  /\ leaveRequests[1].reviewComments = Some("no")
  /\ leaveRequests[1].reviewedBy = Some(1)
  /\ leaveRequests[1].reviewedAt = Some(2 * MsPerHour)
  /\ leaveRequests[1].createdAt = 0

\* C16: whoever a decided leave request names as its reviewer held role admin
\* in the employees table when the decision was applied, also when his role
\* was changed after his token was issued.
C16_ReviewerIsAdminWhenDeciding ==
  [][\A p \in Procs :
       (DecideStep(p) /\ out'.code = 200)
       => LET new == leaveRequests'[req[p].id] IN
          /\ new.reviewedBy # Null
          /\ new.reviewedBy[1] \in Rows(employees)
          /\ employees[new.reviewedBy[1]].role = "admin"]_vars

(***************************************************************************)
(* SpecScenario: the administrator creates employee E (c@x), E logs in and *)
(* submits a vacation of three days, the administrator lists the pending   *)
(* requests and approves E's with the comment "ok", and E lists his        *)
(* requests; one request at a time, each sent when the one before it has   *)
(* succeeded.  E's submit names leaveType, startDate, endDate and reason,  *)
(* or those and daysRequested.                                             *)
(***************************************************************************)
ScenarioProcs == {"p1"}

ScenarioClock == {MsPerHour, 2 * MsPerHour, 3 * MsPerHour}

ScenarioE == getEmployeeByEmail("c@x")

ScenarioRequestsOfE ==
  {i \in Rows(leaveRequests) : leaveRequests[i].employeeId \in ScenarioE}

ScenarioWorkload ==
  LET admin == {t \in tokens : t.id = 1}
      e == {t \in tokens : t.id \in ScenarioE} IN
  IF ScenarioE = {}
  THEN {Request("createEmployee", t, 0,
                EmployeeBody(Some("c@x"), Some("newpass"), Some("eng"), "employee", Some(20))) :
          t \in admin}
  ELSE IF e = {}
  THEN LoginRequests({[email |-> "c@x", password |-> "newpass"]})
  ELSE IF ScenarioRequestsOfE = {}
  THEN {Request("submitLeave", t, 0,
                LeaveBody("vacation", Some(0), Some(2 * MsPerDay), Some("trip"), Absent, d)) :
          t \in e, d \in {Null, Some(3)}}
  ELSE IF \E i \in ScenarioRequestsOfE : leaveRequests[i].status = "pending"
  THEN {Request("leavePending", t, 0, NoBody) : t \in admin}
       \cup {Request("decideLeave", t, i, DecideBody("approved", Some("ok"))) :
               t \in admin, i \in ScenarioRequestsOfE}
  ELSE {Request("leaveMy", t, 0, NoBody) : t \in e}

NextScenario ==
  \/ \E p \in ScenarioProcs : \E r \in ScenarioWorkload : Begin(p, r)
  \/ \E p \in ScenarioProcs : EmployeeCreate(p)
  \/ \E p \in ScenarioProcs : LoginGet(p)
  \/ \E p \in ScenarioProcs : SubmitLeaveCreate(p)
  \/ \E p \in ScenarioProcs : LeavePendingGet(p)
  \/ \E p \in ScenarioProcs : DecideLeaveUpdate(p)
  \/ \E p \in ScenarioProcs : LeaveMyGet(p)
  \/ Tick(ScenarioClock)

SpecScenario == LoggedIn(0) /\ [][NextScenario]_vars

\* C17: every step of the scenario succeeds: the list of pending requests
\* holds E's request, and E's list then shows it approved, with the comment
\* "ok" and the administrator as its reviewer.
C17_ScenarioSucceeds ==
  /\ out.op # "none" => out.code \in {200, 201}
  /\ (out.op = "leavePending" /\ out.code = 200)
       => \E k \in DOMAIN out.body : out.body[k].request.employeeId \in ScenarioE
  /\ (out.op = "leaveMy" /\ out.code = 200)
       => /\ out.body # <<>>
          /\ \A k \in DOMAIN out.body :
               /\ out.body[k].employeeId \in ScenarioE
               /\ out.body[k].status = "approved"
               /\ out.body[k].reviewComments = Some("ok")
               /\ out.body[k].reviewedBy = Some(1)

(***************************************************************************)
(* More properties of the attendance (SpecAttendance).                     *)
(***************************************************************************)
WellFormedAttendance(row) ==
  /\ row.checkInTime # Null
  /\ row.status = "present"
  /\ row.checkOutTime = Null => row.hoursWorked = 0
  /\ row.checkOutTime # Null => row.checkOutTime[1] >= row.checkInTime[1]

\* C18: every attendance record has a check-in time and status present, and
\* its check-out time is null with hoursWorked 0 or is not before its check-in
\* time; a successful check-in creates one record, with the check-in at the
\* instant of the call, no check-out, hoursWorked 0 and status present; no step
\* changes the status or the check-in time of a record, so that presentToday
\* counts the checked-out records of the day too.
C18_AttendanceWellFormed ==
  /\ [](/\ \A i \in Rows(attendance) : WellFormedAttendance(attendance[i])
        /\ getDashboardStats(now).presentToday
             = Cardinality({i \in Rows(attendance) : SameDay(attendance[i].date, now)}))
  /\ [][/\ \A p \in Procs :
            (pc[p] = "createAttendance" /\ pc'[p] = "idle" /\ out'.code = 201)
            => /\ out'.body = [id |-> seq.att + 1, employeeId |-> loc[p].user.id,
                               date |-> loc[p].today, checkInTime |-> Some(loc[p].today),
                               checkOutTime |-> Null, hoursWorked |-> 0, status |-> "present"]
               /\ loc[p].today <= now
               /\ attendance' = [attendance EXCEPT ![seq.att + 1] = out'.body]
               /\ attendance[seq.att + 1] = NoRow
        /\ \A i \in Rows(attendance) :
            /\ attendance'[i] # NoRow
            /\ attendance'[i].status = attendance[i].status
            /\ attendance'[i].checkInTime = attendance[i].checkInTime
            /\ attendance'[i].employeeId = attendance[i].employeeId
            /\ attendance'[i].date = attendance[i].date]_vars

\* employee 2 has checked in at 09:00 and out at 17:00, and his record and
\* the administrator's count as present
C18_Witness ==
  /\ out.op = "checkout"
  /\ out.code = 200
  /\ out.body.status = "present"
  /\ out.body.checkInTime = Some(9 * MsPerHour)
  /\ out.body.checkOutTime = Some(17 * MsPerHour)
  /\ out.body.hoursWorked = 8
  /\ attendance[out.body.id] = out.body
  /\ getDashboardStats(now).presentToday = 2

(***************************************************************************)
(* SpecLists: both seeded users submit leave requests at different         *)
(* instants, the administrator decides them, and the two lists are read;   *)
(* one request at a time.                                                  *)
(***************************************************************************)
ListsProcs == {"p1"}

ListsClock == {MsPerHour}

ListsWorkload ==
  {Request("submitLeave", t, 0,
           LeaveBody("vacation", Some(0), Some(2 * MsPerDay), Null, Absent, Some(3))) : t \in tokens}
  \cup {Request("decideLeave", t, id, b) :
          t \in tokens, id \in LeaveIds,
          b \in {DecideBody("approved", Some("ok")), DecideBody("rejected", Null)}}
  \cup {Request(op, t, 0, NoBody) : op \in {"leavePending", "leaveMy"}, t \in tokens}

NextLists ==
  \/ \E p \in ListsProcs : \E r \in ListsWorkload : Begin(p, r)
  \/ \E p \in ListsProcs : SubmitLeaveCreate(p)
  \/ \E p \in ListsProcs : DecideLeaveUpdate(p)
  \/ \E p \in ListsProcs : LeavePendingGet(p)
  \/ \E p \in ListsProcs : LeaveMyGet(p)
  \/ Tick(ListsClock)

SpecLists == LoggedIn(0) /\ [][NextLists]_vars

\* a sequence that lists each element of the set S of leave requests once,
\* the later created first
ListsNewestFirst(ids, S) ==
  /\ {ids[k] : k \in DOMAIN ids} = S
  /\ Len(ids) = Cardinality(S)
  /\ \A j, k \in DOMAIN ids :
       j < k => leaveRequests[ids[j]].createdAt >= leaveRequests[ids[k]].createdAt

\* C19: the list of pending requests holds exactly the leave requests whose
\* status is pending when it is read, each once and as stored, the later
\* created first.
C19_ListPendingExact ==
  [][\A p \in ListsProcs :
       (pc[p] = "getPendingLeaveRequests" /\ pc'[p] = "idle")
       => /\ out'.code = 200
          /\ \A k \in DOMAIN out'.body :
               /\ out'.body[k].request.id \in Rows(leaveRequests)
               /\ out'.body[k].request = leaveRequests[out'.body[k].request.id]
          /\ ListsNewestFirst([k \in DOMAIN out'.body |-> out'.body[k].request.id],
                              {i \in Rows(leaveRequests) : leaveRequests[i].status = "pending"})
          /\ tables' = tables]_vars

\* the list holds the one pending request, submitted at 01:00, and not the
\* request submitted before it, which was decided
C19_Witness ==
  /\ out.op = "leavePending"
  /\ out.code = 200
  /\ Len(out.body) = 1
  /\ out.body[1].request.status = "pending"
  /\ out.body[1].request.createdAt = MsPerHour
  /\ \E i \in Rows(leaveRequests) :
       leaveRequests[i].status = "rejected" /\ leaveRequests[i].createdAt = 0

\* C20: the list of one's own requests holds exactly the leave requests of
\* the employee of the caller's token, in every status, each once and as
\* stored, the later created first, and no request of another employee.
C20_ListMineExact ==
  [][\A p \in ListsProcs :
       (pc[p] = "getEmployeeLeaveRequests" /\ pc'[p] = "idle")
       => /\ out'.code = 200
          /\ \A k \in DOMAIN out'.body :
               /\ out'.body[k].id \in Rows(leaveRequests)
               /\ out'.body[k] = leaveRequests[out'.body[k].id]
               /\ out'.body[k].employeeId = req[p].token.id
          /\ ListsNewestFirst([k \in DOMAIN out'.body |-> out'.body[k].id],
                              {i \in Rows(leaveRequests) :
                                 leaveRequests[i].employeeId = req[p].token.id})
          /\ tables' = tables]_vars

\* employee 2 reads his list, which holds his approved request and does not
\* hold the administrator's pending one
C20_Witness ==
  /\ out.op = "leaveMy"
  /\ out.code = 200
  /\ Len(out.body) = 1
  /\ out.body[1].employeeId = 2
  /\ out.body[1].status = "approved"
  /\ \E i \in Rows(leaveRequests) :
       leaveRequests[i].employeeId = 1 /\ leaveRequests[i].status = "pending"

(***************************************************************************)
(* SpecAdmin: the administration of the employees on a database that holds *)
(* an attendance record and a pending leave request of employee 2: with    *)
(* either token, the request is approved, employees 1 and 2 are updated    *)
(* (password, empty password, role) and deleted, employee c@x is created,  *)
(* employee 2 logs in again, and the profile and the list of               *)
(* employees are read; one request at a time.                              *)
(***************************************************************************)
AdminProcs == {"p1"}

AdminUpdateBodies ==
  {EmployeeBody(Null, Some(""), Null, Absent, Null),
   EmployeeBody(Null, Some("changed"), Null, Absent, Null),
   EmployeeBody(Null, Null, Null, "admin", Null),
   EmployeeBody(Null, Null, Null, "employee", Null)}

AdminWorkload ==
  {Request("decideLeave", t, 1, DecideBody("approved", Some("ok"))) : t \in tokens}
  \cup {Request("deleteEmployee", t, id, NoBody) : t \in tokens, id \in {1, 2}}
  \cup {Request("updateEmployee", t, id, b) : t \in tokens, id \in {1, 2}, b \in AdminUpdateBodies}
  \cup {Request("createEmployee", t, 0,
                 EmployeeBody(Some("c@x"), Some("newpass"), Some("eng"), Absent, Null)) : t \in tokens}
  \cup {Request(op, t, 0, NoBody) : op \in {"me", "listEmployees"}, t \in tokens}
  \cup LoginRequests({[email |-> "b@x", password |-> "secret"]})

NextAdmin ==
  \/ \E p \in AdminProcs : \E r \in AdminWorkload : Begin(p, r)
  \/ \E p \in AdminProcs : DecideLeaveUpdate(p)
  \/ \E p \in AdminProcs : EmployeeDelete(p)
  \/ \E p \in AdminProcs : EmployeeUpdate(p)
  \/ \E p \in AdminProcs : EmployeeCreate(p)
  \/ \E p \in AdminProcs : MeGet(p)
  \/ \E p \in AdminProcs : EmployeesListGet(p)
  \/ \E p \in AdminProcs : LoginGet(p)

SpecAdmin == Populated(0) /\ [][NextAdmin]_vars

OwnedBy(table, id) == {i \in Rows(table) : table[i].employeeId = id}

\* C21: every attendance record and every leave request belongs to an
\* existing employee, and the deletion of an existing employee, also of one
\* who has reviewed leave requests of others, removes him with the attendance
\* records and the leave requests he owns.
C21_DeleteCascades ==
  /\ [](\A i \in Rows(attendance) : attendance[i].employeeId \in Rows(employees))
  /\ [](\A i \in Rows(leaveRequests) : leaveRequests[i].employeeId \in Rows(employees))
  /\ [][\A p \in AdminProcs :
          (pc[p] = "deleteEmployee" /\ pc'[p] = "idle" /\ req[p].id \in Rows(employees))
          => /\ out'.code = 200
             /\ employees'[req[p].id] = NoRow
             /\ OwnedBy(attendance', req[p].id) = {}
             /\ OwnedBy(leaveRequests', req[p].id) = {}]_vars

HasPassword(r) == "password" \in DOMAIN r

\* C22: no response of the login, of the profile, of the list of employees,
\* of the creation and of the update of an employee holds the password of an
\* employee; the profile is the stored row of the token's employee without
\* its password, and reading it changes nothing.
C22_NoPasswordInResponses ==
  /\ [](out.code \in {200, 201}
         => /\ out.op = "login" => ~HasPassword(out.body.employee)
            /\ out.op \in {"me", "createEmployee", "updateEmployee"} => ~HasPassword(out.body)
            /\ out.op = "listEmployees" => \A e \in out.body : ~HasPassword(e))
  /\ [][\A p \in AdminProcs :
          (pc[p] = "getEmployee" /\ pc'[p] = "idle" /\ req[p].token.id \in Rows(employees))
          => LET row == employees[req[p].token.id] IN
             /\ out'.code = 200
             /\ out'.body = [f \in DOMAIN row \ {"password"} |-> row[f]]
             /\ tables' = tables
             /\ tokens' = tokens]_vars

\* the update of the password of employee 2 was answered with his row, and
\* the row holds the new password
C22_Witness ==
  /\ out.op = "updateEmployee"
  /\ out.code = 200
  /\ out.body.id = 2
  /\ employees[2].password = hashPassword("changed")

\* C23: the stored password of every employee is an output of the hash
\* function, whatever the bodies of the creations and of the updates, the
\* empty password included.
C23_PasswordsAreHashed ==
  \A i \in Rows(employees) :
    \E pw \in {"adminpw", "secret", "newpass", "changed", ""} :
      employees[i].password = hashPassword(pw)

\* C25: a request whose token verifies is authorized by the role of the token
\* alone: an administrator's operation is refused with 403 "Insufficient
\* permissions" when that role is not admin, and every other request reaches
\* its handler, whatever the employees table says of the token's employee.
C25_AuthorizationByTokenClaims ==
  [][\A p \in AdminProcs : \A r \in AdminWorkload :
       (/\ RouteAuth(r.op)
        /\ pc[p] = "idle"
        /\ TokenVerifies(r.token, now)
        /\ out'.op = r.op \/ req'[p] = r
        /\ Begin(p, r))
       => IF r.op \in C10Ops /\ r.token.role # "admin"
          THEN out' = Sent(p, r.op, Resp(403, "Insufficient permissions", Null))
          ELSE /\ pc'[p] # "idle"
               /\ loc'[p].user = [id |-> r.token.id, role |-> r.token.role]]_vars

\* the list of the employees was given to an administrator's token when no
\* employee had role admin any more
C25_Witness ==
  /\ out.op = "listEmployees"
  /\ out.code = 200
  /\ \A i \in Rows(employees) : employees[i].role # "admin"

\* C24: an attendance record is checked out at most once: a check-out that
\* reaches the database when the record has a check-out time fails, and the
\* check-out time and the hours of a checked-out record never change.
C24_CheckedOutOnce ==
  [][/\ \A p \in Procs :
         (/\ pc[p] = "updateAttendance"
          /\ pc'[p] = "idle"
          /\ loc[p].id \in Rows(attendance)
          /\ attendance[loc[p].id].checkOutTime # Null)
         => Failed(out') /\ attendance' = attendance
     /\ \A i \in Rows(attendance) :
         attendance[i].checkOutTime # Null
         => /\ attendance'[i] # NoRow
            /\ attendance'[i].checkOutTime = attendance[i].checkOutTime
            /\ attendance'[i].hoursWorked = attendance[i].hoursWorked]_vars

(***************************************************************************)
(* SpecErrors: the calls that change the database, with bodies and ids the *)
(* routes refuse among those they accept, without a token and with either  *)
(* token, from 09:00, when employee 2 has checked in and has a pending     *)
(* leave request; one request at a time.                                   *)
(***************************************************************************)
ErrorsProcs == {"p1"}

ErrorsClock == {17 * MsPerHour + MsPerHour \div 2}

MutatingOps ==
  {"checkin", "checkout", "submitLeave", "decideLeave",
   "createEmployee", "updateEmployee", "deleteEmployee"}

ErrorsWorkload ==
  LET admin == CHOOSE t \in tokens : t.role = "admin"
      other == CHOOSE t \in tokens : t.role = "employee"
  IN  {Request(op, t, 0, NoBody) : op \in {"checkin", "checkout"}, t \in tokens}
      \cup {Request("submitLeave", other, 0, b) :
             b \in {LeaveBody("vacation", Some(0), Some(MsPerDay), Null, Absent, Some(2)),
                    LeaveBody("vacation", Some(0), Null, Null, Absent, Some(2))}}
      \cup {Request("decideLeave", admin, id, b) :
             id \in {1, 2}, b \in {DecideBody("approved", Some("ok")), DecideBody("pending", Null)}}
      \cup {Request("decideLeave", other, 1, DecideBody("approved", Some("ok")))}
      \cup {Request("createEmployee", admin, 0, b) :
             b \in {EmployeeBody(Some("b@x"), Some("newpass"), Some("eng"), Absent, Null),
                    EmployeeBody(Some("c@x"), Null, Some("eng"), Absent, Null)}}
      \cup {Request("updateEmployee", admin, 2, b) :
             b \in {EmployeeBody(Some("a@x"), Null, Null, Absent, Null),
                    EmployeeBody(Null, Null, Null, "boss", Null),
                    EmployeeBody(Null, Null, Null, Absent, Some(5))}}
      \cup {Request("updateEmployee", admin, 3, EmployeeBody(Null, Null, Null, Absent, Some(5)))}
      \cup {Request("deleteEmployee", admin, id, NoBody) : id \in {1, 3}}
      \cup {Request("deleteEmployee", NoToken, 1, NoBody)}

NextErrors ==
  \/ \E p \in ErrorsProcs : \E r \in ErrorsWorkload : Begin(p, r)
  \/ \E p \in ErrorsProcs : CheckInGet(p)
  \/ \E p \in ErrorsProcs : CheckInCreate(p)
  \/ \E p \in ErrorsProcs : CheckOutGet(p)
  \/ \E p \in ErrorsProcs : CheckOutUpdate(p)
  \/ \E p \in ErrorsProcs : SubmitLeaveCreate(p)
  \/ \E p \in ErrorsProcs : DecideLeaveUpdate(p)
  \/ \E p \in ErrorsProcs : EmployeeCreate(p)
  \/ \E p \in ErrorsProcs : EmployeeUpdate(p)
  \/ \E p \in ErrorsProcs : EmployeeDelete(p)
  \/ Tick(ErrorsClock)

SpecErrors == Populated(9 * MsPerHour) /\ [][NextErrors]_vars

\* C26: a check-in, check-out, submit, decision or creation, update or
\* deletion of an employee that is answered with an error leaves the
\* employees, the attendance records and the leave requests as they were
\* when the call arrived.
C26_ErrorsChangeNothing ==
  [][\A p \in ErrorsProcs :
       /\ pc'[p] # "idle" => tables' = tables
       /\ (pc'[p] = "idle" /\ out'.op \in MutatingOps /\ Failed(out')) => tables' = tables]_vars

\* the deletion of the administrator, who has reviewed the request of
\* employee 2, was answered 500, and he and the request are still there
C26_Witness ==
  /\ out.op = "deleteEmployee"
  /\ out.code = 500
  /\ 1 \in Rows(employees)
  /\ \E i \in Rows(leaveRequests) : leaveRequests[i].reviewedBy = Some(1)
  /\ OwnedBy(attendance, 1) # {}

(***************************************************************************)
(* SpecOwn: employee 2 sends every call that changes the database, with    *)
(* bodies and ids that name the administrator (1), and the administrator   *)
(* checks in, submits a request and makes employee 2 an administrator;     *)
(* from 09:00, when employee 2 has checked in and has a pending leave      *)
(* request; one request at a time.                                         *)
(***************************************************************************)
OwnProcs == {"p1"}

OwnClock == {17 * MsPerHour}

NamingOther == [employeeId |-> 1]

OwnLeaveBody ==
  [leaveType |-> "sick", startDate |-> Some(0), endDate |-> Some(0), reason |-> Null,
   status |-> Absent, daysRequested |-> Some(1), employeeId |-> 1]

OwnWorkload ==
  LET admin == CHOOSE t \in tokens : t.role = "admin"
      other == CHOOSE t \in tokens : t.role = "employee"
  IN  {Request(op, other, 0, NamingOther) : op \in {"checkin", "checkout"}}
      \cup {Request("submitLeave", other, 0, OwnLeaveBody)}
      \cup {Request("decideLeave", other, id, DecideBody("approved", Null)) : id \in {1, 2}}
      \cup {Request("createEmployee", other, 0,
                     EmployeeBody(Some("c@x"), Some("newpass"), Some("eng"), "admin", Null))}
      \cup {Request("updateEmployee", other, id, b) :
             id \in {1, 2},
             b \in {EmployeeBody(Null, Null, Null, "admin", Null),
                    EmployeeBody(Null, Some("changed"), Null, Absent, Some(30))}}
      \cup {Request("deleteEmployee", other, 1, NoBody)}
      \cup {Request("checkin", admin, 0, NoBody)}
      \cup {Request("submitLeave", admin, 0,
                     LeaveBody("vacation", Some(0), Some(MsPerDay), Null, Absent, Some(2)))}
      \cup {Request("updateEmployee", admin, 2, EmployeeBody(Null, Null, Null, "admin", Null))}

NextOwn ==
  \/ \E p \in OwnProcs : \E r \in OwnWorkload : Begin(p, r)
  \/ \E p \in OwnProcs : CheckInGet(p)
  \/ \E p \in OwnProcs : CheckInCreate(p)
  \/ \E p \in OwnProcs : CheckOutGet(p)
  \/ \E p \in OwnProcs : CheckOutUpdate(p)
  \/ \E p \in OwnProcs : SubmitLeaveCreate(p)
  \/ \E p \in OwnProcs : EmployeeUpdate(p)
  \/ Tick(OwnClock)

SpecOwn == Populated(9 * MsPerHour) /\ [][NextOwn]_vars

\* the rows of a table that another employee than id owns
OthersRows(table, id) == {i \in Rows(table) : table[i].employeeId # id}

\* C27: a call with an employee-role token changes no employee record and
\* no attendance record or leave request of another employee than the one
\* of the token: the rows it adds or changes are owned by the token's id,
\* whatever employee the body names; and a role changes only in an update
\* of an employee sent with an administrator's token.
C27_EmployeeTokenActsOnOwnRows ==
  [][\A p \in OwnProcs :
       /\ (pc[p] # "idle" /\ pc'[p] # pc[p] /\ req[p].token.role = "employee")
          => /\ employees' = employees
             /\ \A i \in AttIds :
                  attendance'[i] # attendance[i]
                  => attendance'[i] # NoRow /\ attendance'[i].employeeId = req[p].token.id
             /\ \A i \in LeaveIds :
                  leaveRequests'[i] # leaveRequests[i]
                  => leaveRequests'[i] # NoRow /\ leaveRequests'[i].employeeId = req[p].token.id
             /\ OthersRows(attendance, req[p].token.id) \subseteq Rows(attendance')
             /\ OthersRows(leaveRequests, req[p].token.id) \subseteq Rows(leaveRequests')
       /\ (\E i \in Rows(employees) : employees'[i] = NoRow \/ employees'[i].role # employees[i].role)
          => /\ pc[p] = "updateEmployee"
             /\ req[p].token.role = "admin"]_vars

\* employee 2 has submitted a request whose body names the administrator:
\* it is his own, and the administrator has an attendance record
C27_Witness ==
  /\ out.op = "submitLeave"
  /\ out.code = 201
  /\ out.body.employeeId = 2
  /\ out.body.leaveType = "sick"
  /\ OwnedBy(attendance, 1) # {}

(***************************************************************************)
(* SpecFrame: the two seeded users submit leave requests and the           *)
(* administrator decides requests and deletes employees, from the state    *)
(* where employee 2 has a pending request; one request at a time.          *)
(***************************************************************************)
FrameProcs == {"p1"}

FrameClock == {MsPerHour}

FrameWorkload ==
  LET admin == CHOOSE t \in tokens : t.role = "admin" IN
  {Request("submitLeave", t, 0, LeaveBody("sick", Some(0), Some(MsPerDay), Null, Absent, Some(2))) :
     t \in tokens}
  \cup {Request("decideLeave", admin, id, DecideBody(st, Some("seen"))) :
         id \in {1, 2}, st \in {"approved", "rejected"}}
  \cup {Request("deleteEmployee", admin, id, NoBody) : id \in {1, 2}}

NextFrame ==
  \/ \E p \in FrameProcs : \E r \in FrameWorkload : Begin(p, r)
  \/ \E p \in FrameProcs : SubmitLeaveCreate(p)
  \/ \E p \in FrameProcs : DecideLeaveUpdate(p)
  \/ \E p \in FrameProcs : EmployeeDelete(p)
  \/ Tick(FrameClock)

SpecFrame == Populated(0) /\ [][NextFrame]_vars

\* the fields of a leave request that its submission fixes
Submitted(row) ==
  <<row.employeeId, row.leaveType, row.startDate, row.endDate, row.reason, row.daysRequested>>

\* C28: the submission and the decision of a leave request leave every
\* employee's leave balance as it was; a decision leaves every other
\* request as it was and keeps the owner, the type, the dates, the reason
\* and the days of the one it decides; and a leave request disappears only
\* in the deletion of its owner.
C28_LeaveFrame ==
  [][\A p \in FrameProcs :
       /\ (pc[p] \in {"createLeaveRequest", "updateLeaveRequestStatus"} /\ pc'[p] # pc[p])
          => \A e \in EmpIds :
               /\ employees'[e] = NoRow <=> employees[e] = NoRow
               /\ employees[e] # NoRow => employees'[e].leaveBalance = employees[e].leaveBalance
       /\ (pc[p] = "updateLeaveRequestStatus" /\ pc'[p] # pc[p])
          => \A i \in LeaveIds :
               IF i = req[p].id /\ leaveRequests[i] # NoRow
               THEN /\ leaveRequests'[i] # NoRow
                    /\ Submitted(leaveRequests'[i]) = Submitted(leaveRequests[i])
               ELSE leaveRequests'[i] = leaveRequests[i]
       /\ \A i \in Rows(leaveRequests) :
            leaveRequests'[i] = NoRow
            => /\ pc[p] = "deleteEmployee"
               /\ req[p].id = leaveRequests[i].employeeId
               /\ employees'[req[p].id] = NoRow]_vars

\* a request of three days was approved and its owner's balance is the
\* seeded one
C28_Witness ==
  /\ out.op = "decideLeave"
  /\ out.code = 200
  /\ out.body.status = "approved"
  /\ out.body.daysRequested = 3
  /\ employees[out.body.employeeId].leaveBalance = 20

\* C29: the check-in and the check-out time of an attendance record are on
\* the same calendar day: no record is checked out on a later day than the
\* one it was created on.
C29_CheckOutSameDay ==
  \A i \in Rows(attendance) :
    attendance[i].checkOutTime # Null
    => SameDay(attendance[i].checkInTime[1], attendance[i].checkOutTime[1])

\* C30: the employee embedded in an element of the answer of
\* GET /api/attendance/today and of GET /api/leave-requests/pending has no
\* password field.
C30_NoPasswordInJoinedReads ==
  /\ (out.op = "attendanceToday" /\ out.code = 200)
     => \A e \in out.body : ~HasPassword(e.employee)
  /\ (out.op = "leavePending" /\ out.code = 200)
     => \A k \in DOMAIN out.body : ~HasPassword(out.body[k].employee)
====
